---- MODULE Spec2Model ----
(***************************************************************************)
(* Degrees of separation (degrees.py): the in-memory tables names, people  *)
(* and movies built by load_data, name resolution by person_id_for_name,   *)
(* neighbor expansion by neighbors_for_person and the breadth-first search *)
(* of shortest_path.                                                       *)
(*                                                                         *)
(* Identifiers are strings in the program; here person ids are 1..NumPersons*)
(* and movie ids 1..NumMovies (two separate name spaces), and Python's None *)
(* in a (movie_id, person_id) node is 0.  A name is a sequence of          *)
(* characters so that str.lower() is a real conversion.  The fields birth, *)
(* title and year are stored by load_data and read only by print           *)
(* statements; they are left out.                                          *)
(***************************************************************************)
EXTENDS Integers, Sequences, FiniteSets, TLC

NumPersons == 3
NumMovies == 2
MaxStarRows == 4

PersonIds == 1..NumPersons
MovieIds == 1..NumMovies
None == 0

\* The names that occur in people.csv and at the "Name: " prompt.
Al == <<"A", "l">>
al == <<"a", "l">>
Pat == <<"P", "a", "t">>
AL == <<"A", "L">>
FileNames == {Al, al, Pat}
QueryNames == {Al, al, Pat, AL}
\* The one name every people.csv row carries in the search specification.
PlainNames == {Pat}

VARIABLES
  phase,       \* load_data's position: "people", "movies", "stars", "loaded"
  starRows,    \* rows of stars.csv read so far by the open reader
  names,       \* lower-cased name -> set of person ids
  people,      \* person id -> [name, movies]
  movies,      \* movie id -> [stars]
  pc,          \* shortest_path's position: "idle", "loop", "for", "reconstruct", "done"
  source, target,
  frontier,    \* QueueFrontier: sequence of <<movie_id, person_id>>
  explored,
  came_from,   \* <<movie_id, person_id>> -> <<movie_id, person_id>>
  movie_id, person_id,
  neighbors,   \* the set neighbors_for_person returned for person_id
  pending,     \* the elements of neighbors the for loop has not yet visited
  path,
  ret,         \* shortest_path's return: "pending", "None" or "list" (the list is path)
  rpc,         \* person_id_for_name's position: "idle", "input", "returned"
  rname,       \* its argument
  person_ids,  \* its local person_ids
  answer,      \* what input("Intended Person ID: ") returned
  rret         \* its return value: a person id or None

loadVars == <<phase, starRows, names, people, movies>>
searchVars == <<pc, source, target, frontier, explored, came_from, movie_id,
                person_id, neighbors, pending, path, ret>>
resolveVars == <<rpc, rname, person_ids, answer, rret>>
vars == <<phase, starRows, names, people, movies, pc, source, target, frontier,
          explored, came_from, movie_id, person_id, neighbors, pending, path, ret,
          rpc, rname, person_ids, answer, rret>>

(***************************************************************************)
(* Helpers for dicts: a dict is a function whose DOMAIN is its key set.    *)
(***************************************************************************)
EmptyDict == [k \in {} |-> 0]

Put(d, key, val) == [k \in DOMAIN d \cup {key} |-> IF k = key THEN val ELSE d[k]]

\* str.lower(), character by character.
LowerChar(c) ==
  CASE c = "A" -> "a"
    [] c = "L" -> "l"
    [] c = "P" -> "p"
    [] c = "T" -> "t"
    [] OTHER -> c

Lower(name) == [i \in DOMAIN name |-> LowerChar(name[i])]

(***************************************************************************)
(* State after the module is imported: three empty tables.                 *)
(***************************************************************************)
Init ==
  /\ phase = "people"
  /\ starRows = 0
  /\ names = EmptyDict
  /\ people = EmptyDict
  /\ movies = EmptyDict
  /\ pc = "idle"
  /\ source = None
  /\ target = None
  /\ frontier = <<>>
  /\ explored = {}
  /\ came_from = EmptyDict
  /\ movie_id = None
  /\ person_id = None
  /\ neighbors = {}
  /\ pending = {}
  /\ path = <<>>
  /\ ret = "pending"
  /\ rpc = "idle"
  /\ rname = <<>>
  /\ person_ids = {}
  /\ answer = None
  /\ rret = None

(***************************************************************************)
(* load_data                                                               *)
(***************************************************************************)
\* names after one people.csv row (lines 31-35).
NamesAfterRow(nm, pid, name) ==
  LET name_lower == Lower(name)
  IN IF name_lower \notin DOMAIN nm
       THEN Put(nm, name_lower, {pid})
       ELSE [nm EXCEPT ![name_lower] = @ \cup {pid}]

\* One row of people.csv (lines 22-35).
LoadPersonRow(pid, name) ==
  /\ phase = "people"
  /\ people' = Put(people, pid, [name |-> name, movies |-> {}])
  /\ names' = NamesAfterRow(names, pid, name)
  /\ UNCHANGED <<phase, starRows, movies>>
  /\ UNCHANGED searchVars
  /\ UNCHANGED resolveVars

\* people.csv is exhausted; movies.csv is opened.
EndPeopleFile ==
  /\ phase = "people"
  /\ phase' = "movies"
  /\ UNCHANGED <<starRows, names, people, movies>>
  /\ UNCHANGED searchVars
  /\ UNCHANGED resolveVars

\* One row of movies.csv (lines 40-48).
LoadMovieRow(mid) ==
  /\ phase = "movies"
  /\ movies' = Put(movies, mid, [stars |-> {}])
  /\ UNCHANGED <<phase, starRows, names, people>>
  /\ UNCHANGED searchVars
  /\ UNCHANGED resolveVars

\* movies.csv is exhausted; stars.csv is opened.
EndMoviesFile ==
  /\ phase = "movies"
  /\ phase' = "stars"
  /\ UNCHANGED <<starRows, names, people, movies>>
  /\ UNCHANGED searchVars
  /\ UNCHANGED resolveVars

\* The guard of line 56.
StarRowKnown(pid, mid) == pid \in DOMAIN people /\ mid \in DOMAIN movies

\* A variant of line 57 guarded by the person id alone.
PeopleAfterStarUnguarded(pid, mid) ==
  IF pid \in DOMAIN people
    THEN [people EXCEPT ![pid].movies = @ \cup {mid}]
    ELSE people

\* The two tables after one stars.csv row (lines 54-58).
PeopleAfterStar(pid, mid) ==
  IF StarRowKnown(pid, mid)
    THEN [people EXCEPT ![pid].movies = @ \cup {mid}]
    ELSE people

MoviesAfterStar(pid, mid) ==
  IF StarRowKnown(pid, mid)
    THEN [movies EXCEPT ![mid].stars = @ \cup {pid}]
    ELSE movies

\* One row of stars.csv (lines 53-58); the file holds at most MaxStarRows rows.
LoadStarRow(pid, mid) ==
  /\ phase = "stars"
  /\ starRows < MaxStarRows
  /\ starRows' = starRows + 1
  /\ people' = PeopleAfterStar(pid, mid)
  /\ movies' = MoviesAfterStar(pid, mid)
  /\ UNCHANGED <<phase, names>>
  /\ UNCHANGED searchVars
  /\ UNCHANGED resolveVars

\* stars.csv is exhausted; load_data returns and its reader is gone.
EndStarsFile ==
  /\ phase = "stars"
  /\ phase' = "loaded"
  /\ starRows' = 0
  /\ UNCHANGED <<names, people, movies>>
  /\ UNCHANGED searchVars
  /\ UNCHANGED resolveVars

(***************************************************************************)
(* neighbors_for_person                                                    *)
(***************************************************************************)
\* A variant of the test of line 89 that lets the person itself through.
IsCoStarOrSelf(neighbor_id, pid) == TRUE

\* The test of line 89.
IsCoStar(neighbor_id, pid) == neighbor_id /= pid

\* The inner loop (lines 88-90): the stars of one movie, one at a time.
RECURSIVE AddStars(_, _, _, _)
AddStars(acc, pid, mid, stars) ==
  IF stars = {} THEN acc
  ELSE LET neighbor_id == CHOOSE s \in stars : TRUE
       IN AddStars(IF IsCoStar(neighbor_id, pid) THEN acc \cup {<<mid, neighbor_id>>} ELSE acc,
                   pid, mid, stars \ {neighbor_id})

\* The outer loop (lines 87-90): the person's movies, one at a time.
RECURSIVE AddMovies(_, _, _)
AddMovies(acc, pid, movie_ids) ==
  IF movie_ids = {} THEN acc
  ELSE LET mid == CHOOSE m \in movie_ids : TRUE
       IN AddMovies(AddStars(acc, pid, mid, movies[mid].stars), pid, movie_ids \ {mid})

neighbors_for_person(pid) == AddMovies({}, pid, people[pid].movies)

(***************************************************************************)
(* util.QueueFrontier: first in, first out.                                *)
(***************************************************************************)
QueueAdd(q, node) == Append(q, node)
QueueEmpty(q) == Len(q) = 0
QueueHead(q) == Head(q)
QueueRest(q) == Tail(q)

(***************************************************************************)
(* shortest_path                                                           *)
(***************************************************************************)
\* Lines 100-109: the call, with two ids person_id_for_name returned.
shortest_path(s, t) ==
  /\ phase = "loaded"
  /\ pc = "idle"
  /\ s \in DOMAIN people
  /\ t \in DOMAIN people
  /\ source' = s
  /\ target' = t
  /\ frontier' = QueueAdd(<<>>, <<None, s>>)
  /\ explored' = {s}
  /\ came_from' = EmptyDict
  /\ pc' = "loop"
  /\ UNCHANGED <<movie_id, person_id, neighbors, pending, path, ret>>
  /\ UNCHANGED loadVars
  /\ UNCHANGED resolveVars

\* A variant of line 138 that returns the empty list.
NoPathResultEmptyList == "list"

\* What line 138 returns.
NoPathResult == "None"

\* Line 137-138: the frontier is empty.
ReturnNone ==
  /\ pc = "loop"
  /\ QueueEmpty(frontier)
  /\ ret' = NoPathResult
  /\ pc' = "done"
  /\ UNCHANGED <<source, target, frontier, explored, came_from, movie_id, person_id,
                 neighbors, pending, path>>
  /\ UNCHANGED loadVars
  /\ UNCHANGED resolveVars

\* A variant of line 116 that never stops at the start node.
IsTargetNotSource(pid) == pid = target /\ pid /= source

\* The test of line 116 on the node just removed.
IsTarget(pid) == pid = target

\* Lines 111-126: remove a node; at the target start the reconstruction, otherwise
\* fetch the neighbors and enter the for loop.
Dequeue ==
  /\ pc = "loop"
  /\ ~QueueEmpty(frontier)
  /\ movie_id' = QueueHead(frontier)[1]
  /\ person_id' = QueueHead(frontier)[2]
  /\ frontier' = QueueRest(frontier)
  /\ IF IsTarget(QueueHead(frontier)[2])
       THEN /\ path' = <<>>
            /\ pc' = "reconstruct"
            /\ UNCHANGED <<neighbors, pending>>
       ELSE /\ neighbors' = neighbors_for_person(QueueHead(frontier)[2])
            /\ pending' = neighbors_for_person(QueueHead(frontier)[2])
            /\ pc' = "for"
            /\ UNCHANGED path
  /\ UNCHANGED <<source, target, explored, came_from, ret>>
  /\ UNCHANGED loadVars
  /\ UNCHANGED resolveVars

\* A variant of line 129 that only keeps the start node out.
UnexploredOrSeen(neighbor_id) == neighbor_id /= source

\* The test of line 129.
Unexplored(neighbor_id) == neighbor_id \notin explored

\* The value line 135 stores for the pair the loop variables hold: movie_id has
\* been rebound by the for statement, person_id is still the removed node's.
CameFromValue(loop_movie_id, removed_person_id) == <<loop_movie_id, removed_person_id>>

\* Lines 128-135: one iteration of the for loop, over a set, in the set's order.
ForStep(pair) ==
  /\ pc = "for"
  /\ pair \in pending
  /\ pending' = pending \ {pair}
  /\ movie_id' = pair[1]
  /\ IF Unexplored(pair[2])
       THEN /\ frontier' = QueueAdd(frontier, pair)
            /\ explored' = explored \cup {pair[2]}
            /\ came_from' = Put(came_from, pair, CameFromValue(pair[1], person_id))
       ELSE UNCHANGED <<frontier, explored, came_from>>
  /\ UNCHANGED <<pc, source, target, person_id, neighbors, path, ret>>
  /\ UNCHANGED loadVars
  /\ UNCHANGED resolveVars

\* The for loop is exhausted: back to the while test.
ForDone ==
  /\ pc = "for"
  /\ pending = {}
  /\ pc' = "loop"
  /\ UNCHANGED <<source, target, frontier, explored, came_from, movie_id, person_id,
                 neighbors, pending, path, ret>>
  /\ UNCHANGED loadVars
  /\ UNCHANGED resolveVars

\* The test of line 119.
HasPredecessor(node) == node \in DOMAIN came_from

\* Lines 119-121: one iteration of the reconstruction loop.
ReconstructStep ==
  /\ pc = "reconstruct"
  /\ HasPredecessor(<<movie_id, person_id>>)
  /\ path' = Append(path, <<movie_id, person_id>>)
  /\ movie_id' = came_from[<<movie_id, person_id>>][1]
  /\ person_id' = came_from[<<movie_id, person_id>>][2]
  /\ UNCHANGED <<pc, source, target, frontier, explored, came_from, neighbors, pending, ret>>
  /\ UNCHANGED loadVars
  /\ UNCHANGED resolveVars

\* list.reverse()
Reverse(s) == [i \in 1..Len(s) |-> s[Len(s) + 1 - i]]

\* Lines 122-123: the loop has ended; reverse and return.
ReturnPath ==
  /\ pc = "reconstruct"
  /\ ~HasPredecessor(<<movie_id, person_id>>)
  /\ path' = Reverse(path)
  /\ ret' = "list"
  /\ pc' = "done"
  /\ UNCHANGED <<source, target, frontier, explored, came_from, movie_id, person_id,
                 neighbors, pending>>
  /\ UNCHANGED loadVars
  /\ UNCHANGED resolveVars

\* The caller has the result; the locals of the call are gone.
SearchReturned ==
  /\ pc = "done"
  /\ pc' = "idle"
  /\ source' = None
  /\ target' = None
  /\ frontier' = <<>>
  /\ explored' = {}
  /\ came_from' = EmptyDict
  /\ movie_id' = None
  /\ person_id' = None
  /\ neighbors' = {}
  /\ pending' = {}
  /\ path' = <<>>
  /\ ret' = "pending"
  /\ UNCHANGED loadVars
  /\ UNCHANGED resolveVars

(***************************************************************************)
(* person_id_for_name                                                      *)
(***************************************************************************)
\* Line 65: names.get(name.lower(), set())
NamesGet(name) == IF Lower(name) \in DOMAIN names THEN names[Lower(name)] ELSE {}

\* A variant of line 68 that lets two candidates through to line 78.
AmbiguousOverTwo(ids) == Cardinality(ids) > 2

\* The test of line 68.
Ambiguous(ids) == Cardinality(ids) > 1

\* Lines 65-68, 77-78: the call, up to its return or to the input() of line 73.
person_id_for_name(name) ==
  /\ phase = "loaded"
  /\ rpc = "idle"
  /\ rname' = name
  /\ person_ids' = NamesGet(name)
  /\ IF Cardinality(NamesGet(name)) = 0
       THEN rret' = None /\ rpc' = "returned"
       ELSE IF Ambiguous(NamesGet(name))
         THEN rret' = None /\ rpc' = "input"
         ELSE rret' = (CHOOSE p \in NamesGet(name) : TRUE) /\ rpc' = "returned"
  /\ UNCHANGED answer
  /\ UNCHANGED loadVars
  /\ UNCHANGED searchVars

\* Lines 73-76: input() returns what the user typed.
InputAnswer(typed) ==
  /\ rpc = "input"
  /\ answer' = typed
  /\ rret' = IF typed \in person_ids THEN typed ELSE None
  /\ rpc' = "returned"
  /\ UNCHANGED <<rname, person_ids>>
  /\ UNCHANGED loadVars
  /\ UNCHANGED searchVars

\* The caller has the id; the locals of the call are gone.
ResolveReturned ==
  /\ rpc = "returned"
  /\ rpc' = "idle"
  /\ rname' = <<>>
  /\ person_ids' = {}
  /\ answer' = None
  /\ rret' = None
  /\ UNCHANGED loadVars
  /\ UNCHANGED searchVars

\* What can be typed at the prompt: a person id, or something that is none (here 0).
TypedIds == PersonIds \cup {None}

(***************************************************************************)
(* Specifications                                                          *)
(***************************************************************************)
\* Loading with every name in people.csv, then name resolution.  Names play no part
\* in the other two files, which here hold rows of one movie and one pair only.
Next ==
  \/ \E pid \in PersonIds, name \in FileNames : LoadPersonRow(pid, name)
  \/ EndPeopleFile
  \/ LoadMovieRow(1)
  \/ EndMoviesFile
  \/ LoadStarRow(1, 1)
  \/ EndStarsFile
  \/ \E name \in QueryNames : person_id_for_name(name)
  \/ \E typed \in TypedIds : InputAnswer(typed)
  \/ ResolveReturned

Spec == Init /\ [][Next]_vars

\* Loading with every movies.csv and stars.csv over the ids, then searches.  The
\* search never reads a name, and here every people.csv row carries the same one.
NextSearch ==
  \/ \E pid \in PersonIds, name \in PlainNames : LoadPersonRow(pid, name)
  \/ EndPeopleFile
  \/ \E mid \in MovieIds : LoadMovieRow(mid)
  \/ EndMoviesFile
  \/ \E pid \in PersonIds, mid \in MovieIds : LoadStarRow(pid, mid)
  \/ EndStarsFile
  \/ \E s \in PersonIds, t \in PersonIds : shortest_path(s, t)
  \/ ReturnNone
  \/ Dequeue
  \/ \E pair \in MovieIds \X PersonIds : ForStep(pair)
  \/ ForDone
  \/ ReconstructStep
  \/ ReturnPath
  \/ SearchReturned

SpecSearch == Init /\ [][NextSearch]_vars

\* A step of a running search.
SearchStep ==
  \/ ReturnNone
  \/ Dequeue
  \/ \E pair \in MovieIds \X PersonIds : ForStep(pair)
  \/ ForDone
  \/ ReconstructStep
  \/ ReturnPath

\* shortest_path is synchronous, single-threaded code: once called it runs on until
\* it returns.
SpecSearchFair == SpecSearch /\ WF_vars(SearchStep)

(***************************************************************************)
(* The co-starring graph of the loaded store, and its distances by brute   *)
(* force.                                                                  *)
(***************************************************************************)
CoStars(p, q) == p /= q /\ \E m \in DOMAIN movies : {p, q} \subseteq movies[m].stars

\* A value no distance between two loaded persons reaches.
Unreachable == Cardinality(DOMAIN people)

\* The number of co-starring links from the persons of reached, which are k links
\* from the start, to t; Unreachable when there is no chain of links.
RECURSIVE DistFrom(_, _, _)
DistFrom(reached, t, k) ==
  IF t \in reached THEN k
  ELSE LET more == reached \cup {q \in DOMAIN people : \E p \in reached : CoStars(p, q)}
       IN IF more = reached THEN Unreachable ELSE DistFrom(more, t, k + 1)

Dist(s, t) == DistFrom({s}, t, 0)

Searching == pc \in {"loop", "for", "reconstruct", "done"}

(***************************************************************************)
(* Claims                                                                  *)
(***************************************************************************)
\* C1: for source and target in the same connected component, shortest_path returns
\* a list whose length equals the graph distance between them.
C1_HopCountIsDistance ==
  (pc = "done" /\ Dist(source, target) /= Unreachable)
    => (ret = "list" /\ Len(path) = Dist(source, target))

\* The hop before hop i of a returned list: the source, then the person of hop i-1.
HopFrom(i) == IF i = 1 THEN source ELSE path[i - 1][2]

\* C2: replaying a returned list from the source never violates adjacency (each hop's
\* movie is in the movie set of the person before it and of its own person), and the
\* replay ends at the target.
C2_ReplayKeepsAdjacency ==
  (pc = "done" /\ ret = "list")
    => /\ \A i \in 1..Len(path) :
            /\ path[i][1] \in people[HopFrom(i)].movies
            /\ path[i][1] \in people[path[i][2]].movies
       /\ (IF Len(path) = 0 THEN source ELSE path[Len(path)][2]) = target

\* A finished search between two components has returned None on an empty frontier.
NoPathIsNone ==
  (pc = "done" /\ Dist(source, target) = Unreachable)
    => (ret = "None" /\ QueueEmpty(frontier))

\* C3: for source and target in different connected components, shortest_path
\* terminates, with the frontier exhausted, and returns None, never a list.
C3_DisconnectedReturnsNone ==
  /\ []NoPathIsNone
  /\ (pc = "loop" /\ Dist(source, target) = Unreachable) ~> (pc = "done")

C3_Witness ==
  /\ pc = "done"
  /\ ret = "None"
  /\ Dist(source, target) = Unreachable
  /\ Cardinality(explored) >= 2

\* C4: shortest_path(p, p) returns the empty list, not None, whatever p's movies and
\* co-stars.
C4_SelfPathIsEmptyList ==
  (pc = "done" /\ source = target) => (ret = "list" /\ path = <<>>)

C4_Witness ==
  /\ pc = "done"
  /\ source = target
  /\ ret = "list"
  /\ \E q \in DOMAIN people : CoStars(source, q)

\* The pairs the claim describes for person p.
CoStarPairs(p) ==
  {pair \in MovieIds \X PersonIds :
     /\ pair[1] \in people[p].movies
     /\ pair[1] \in DOMAIN movies
     /\ pair[2] \in movies[pair[1]].stars
     /\ pair[2] /= p}

\* C5: neighbors_for_person(p) is exactly the set of pairs (m, q) with m in p's movie
\* set, q in m's star set and q /= p: no pair names p, and a co-star appears once per
\* shared movie.
C5_NeighborsExact ==
  /\ \A p \in DOMAIN people : neighbors_for_person(p) = CoStarPairs(p)
  /\ pc = "for" => neighbors = CoStarPairs(person_id)

C5_Witness ==
  /\ pc = "for"
  /\ \E q \in PersonIds : \E m1, m2 \in MovieIds :
       m1 /= m2 /\ <<m1, q>> \in neighbors /\ <<m2, q>> \in neighbors

\* The store is consistent.
StoreConsistent ==
  /\ \A p \in DOMAIN people : people[p].movies \subseteq DOMAIN movies
  /\ \A m \in DOMAIN movies : movies[m].stars \subseteq DOMAIN people
  /\ \A p \in DOMAIN people, m \in DOMAIN movies :
       m \in people[p].movies <=> p \in movies[m].stars

\* A stars.csv row with an unknown id changes no table and the load goes on.
UnknownStarRowSkipped ==
  \A pid \in PersonIds, mid \in MovieIds :
    (~StarRowKnown(pid, mid) /\ LoadStarRow(pid, mid))
      => (UNCHANGED <<names, people, movies>> /\ phase' = "stars")

\* C6: at every point of one load from empty tables the store is consistent (m is in
\* p's movie set iff p is in m's star set, and every id in those sets is a key of its
\* table), and a stars row with an unknown id changes neither table and does not stop
\* the load.
C6_LoadKeepsStoreConsistent == []StoreConsistent /\ [][UnknownStarRowSkipped]_vars

\* Rows of stars.csv have been read, every one of them dropped, with both tables
\* filled.
C6_Witness ==
  /\ phase = "stars"
  /\ starRows >= 2
  /\ DOMAIN people /= {}
  /\ DOMAIN movies /= {}
  /\ \A p \in DOMAIN people : people[p].movies = {}

\* C7: name resolution is a case-insensitive exact match: two queries equal after
\* lower-casing resolve to the same set, and that set is exactly the ids of the loaded
\* persons whose lower-cased name equals the lower-cased query.
C7_ResolveIsExactMatch ==
  phase = "loaded" =>
    /\ \A q1, q2 \in QueryNames : Lower(q1) = Lower(q2) => NamesGet(q1) = NamesGet(q2)
    /\ \A q \in QueryNames :
         NamesGet(q) = {p \in DOMAIN people : Lower(people[p].name) = Lower(q)}

\* C8 as stated: with more than one match the resolve operation returns without ever
\* waiting on interactive input.
C8_ResolveNeverWaitsOnInput == Cardinality(person_ids) > 1 => rpc /= "input"

\* With more than one candidate the call goes to the prompt, never straight to a return.
AmbiguousCallPrompts ==
  (rpc = "idle" /\ rpc' /= "idle" /\ Cardinality(person_ids') > 1) => rpc' = "input"

\* C8 as amended: with more than one match person_id_for_name computes the whole
\* candidate set, then itself waits on input() and returns the typed id when it is a
\* candidate and None otherwise.
C8_AmbiguousNameIsPrompted ==
  /\ [](rpc /= "idle" => person_ids = NamesGet(rname))
  /\ [](rpc = "input" => Cardinality(person_ids) > 1)
  /\ []((rpc = "returned" /\ Cardinality(person_ids) > 1)
          => rret = (IF answer \in person_ids THEN answer ELSE None))
  /\ [][AmbiguousCallPrompts]_vars

C8_Witness ==
  /\ rpc = "returned"
  /\ Cardinality(person_ids) = 2
  /\ rret \in person_ids

(***************************************************************************)
(* The run of shortest_path in which every for loop visits the neighbor    *)
(* pairs in ascending (movie id, person id) order.                         *)
(***************************************************************************)
PairLess(a, b) == a[1] < b[1] \/ (a[1] = b[1] /\ a[2] < b[2])

MinPair(S) == CHOOSE a \in S : \A b \in S : a = b \/ PairLess(a, b)

RECURSIVE SortedFor(_, _, _)
SortedFor(st, pid, pairs) ==
  IF pairs = {} THEN st
  ELSE LET pair == MinPair(pairs)
           st2 == IF pair[2] \in st.explored THEN st
                  ELSE [frontier |-> Append(st.frontier, pair),
                        explored |-> st.explored \cup {pair[2]},
                        came_from |-> Put(st.came_from, pair, <<pair[1], pid>>)]
       IN SortedFor(st2, pid, pairs \ {pair})

RECURSIVE SortedWalk(_, _, _)
SortedWalk(cf, node, acc) ==
  IF node \in DOMAIN cf
    THEN SortedWalk(cf, cf[node], Append(acc, node))
    ELSE [i \in 1..Len(acc) |-> acc[Len(acc) + 1 - i]]

RECURSIVE SortedLoop(_, _)
SortedLoop(st, t) ==
  IF st.frontier = <<>> THEN [ret |-> "None", path |-> <<>>]
  ELSE LET node == Head(st.frontier)
       IN IF node[2] = t
            THEN [ret |-> "list", path |-> SortedWalk(st.came_from, node, <<>>)]
            ELSE SortedLoop(SortedFor([st EXCEPT !.frontier = Tail(st.frontier)],
                                      node[2], CoStarPairs(node[2])), t)

SortedRun(s, t) ==
  SortedLoop([frontier |-> <<<<None, s>>>>, explored |-> {s}, came_from |-> EmptyDict], t)

\* C9 as stated: neighbor pairs are processed in ascending (movie id, person id)
\* order, so every run of shortest_path on a fixed store and (source, target) returns
\* the one result of that order.
C9_EveryRunReturnsSortedResult ==
  pc = "done" => (ret = SortedRun(source, target).ret
                  /\ path = SortedRun(source, target).path)

\* C9 as amended: the for loop follows the set's own order, and every run on a fixed
\* store and (source, target) agrees on None or list, on the length of the list and on
\* its last person; the movie ids of the list depend on the order.
C9_RunsAgreeUpToMovieIds ==
  pc = "done" =>
    /\ ret = SortedRun(source, target).ret
    /\ Len(path) = Len(SortedRun(source, target).path)
    /\ Len(path) > 0 =>
         path[Len(path)][2] = SortedRun(source, target).path[Len(path)][2]

\* A finished run whose list is not the list of the ascending order.
C9_Witness ==
  /\ pc = "done"
  /\ ret = "list"
  /\ path /= SortedRun(source, target).path

\* The node a step has put on the frontier.
Enqueued == frontier'[Len(frontier')]

\* A node is put on the frontier only at the first discovery of its person.
EnqueuedAtFirstDiscovery ==
  (pc = "for" /\ Len(frontier') > Len(frontier))
    => (Enqueued[2] \notin explored /\ Enqueued[2] \in explored')

\* Within a search the explored set only grows.
ExploredGrows == (pc \in {"loop", "for"}) => explored \subseteq explored'

\* Persons leave the frontier in non-decreasing distance from the source.
DequeuedInDistanceOrder ==
  (pc = "loop" /\ pc' \in {"for", "reconstruct"} /\ person_id /= None)
    => Dist(source, person_id) <= Dist(source, person_id')

\* No person is on the frontier twice, and only explored persons are on it.
FrontierDistinct ==
  /\ \A i, j \in 1..Len(frontier) : frontier[i][2] = frontier[j][2] => i = j
  /\ \A i \in 1..Len(frontier) : frontier[i][2] \in explored

\* Every predecessor entry lies on a shortest path.
PredecessorsOnShortestPaths ==
  \A node \in DOMAIN came_from :
    /\ came_from[node][1] = node[1]
    /\ node[1] \in people[node[2]].movies
    /\ node[1] \in people[came_from[node][2]].movies
    /\ Dist(source, node[2]) = Dist(source, came_from[node][2]) + 1

\* C10: in every state of a search each person is marked explored and enqueued at most
\* once, at first discovery; persons are dequeued in non-decreasing distance from the
\* source; and every entry came_from[(m, n)] = (m, p) has m shared by p and n and
\* distance(source, n) = distance(source, p) + 1.
C10_BfsInvariants ==
  /\ [](Searching => (FrontierDistinct /\ PredecessorsOnShortestPaths))
  /\ [][EnqueuedAtFirstDiscovery]_vars
  /\ [][ExploredGrows]_vars
  /\ [][DequeuedInDistanceOrder]_vars

\* A search that has expanded two persons and found the third at distance 2.
C10_Witness ==
  /\ pc = "done"
  /\ \E node \in DOMAIN came_from : Dist(source, node[2]) = 2

====
